---- MODULE Spec2Model ----
(***************************************************************************)
(* Model of the VQA trainer of src/VQA.py and of prob_dist of src/utils.py. *)
(*                                                                         *)
(* Conventions.                                                            *)
(*  - A real number is a pair <<numerator, denominator>>; v / shots is the  *)
(*    pair <<v, shots>> and 1 - q is computed on the pair.                  *)
(*  - A bitstring is a sequence of the digits 0 and 1, most significant     *)
(*    digit first; the empty sequence is the empty string.                  *)
(*  - A Python dict is the sequence of its <<key, value>> items in          *)
(*    insertion order.                                                      *)
(*  - A circuit is the sequence of the operations appended to it.  Every    *)
(*    operation records the qubits it acts on, the indices of self.params   *)
(*    it read (idx) and the values read there (angles).                     *)
(*  - The backend and the optimizer are external: any result their          *)
(*    contract allows is possible.                                          *)
(***************************************************************************)
EXTENDS Integers, Sequences, FiniteSets, TLC

VARIABLES
    pc,               \* where the client / find_target_distribution stands
    target_distr,     \* self.target_distr
    gate,             \* self.gate
    layers,           \* self.layers
    entanglement,     \* self.entanglement
    n,                \* self.n
    has_params,       \* whether __init__ set self.params / self.initial_params
    params,           \* self.params
    initial_params,   \* self.initial_params
    optCalls,         \* number of calls of optimizer.optimize
    initial_point,    \* the initial_point handed to optimizer.optimize
    numEvals,         \* number of calls of objective_function
    numExec,          \* number of backend.run calls
    arg,              \* the argument params of the latest objective_function call
    qc,               \* the circuit the latest self.Ansatz() call returned
    counts,           \* the dict the latest get_counts(qc) returned
    eval_distr,       \* output_distr of the latest objective_function call
    cost,             \* the value the latest objective_function call returned
    sorted_output,    \* self.sorted_output
    output_distr,     \* self.output_distr
    found_parameters, \* self.found_parameters
    pd_counts,        \* argument counts of a direct prob_dist call
    pd_shots,         \* argument shots of that call
    pd_result         \* what that call returned

vars == <<pc, target_distr, gate, layers, entanglement, n, has_params, params,
          initial_params, optCalls, initial_point, numEvals, numExec, arg, qc,
          counts, eval_distr, cost, sorted_output, output_distr,
          found_parameters, pd_counts, pd_shots, pd_result>>

(***************************************************************************)
(* Bounds of the model.                                                    *)
(***************************************************************************)
MaxTargetLen == 4      \* target distributions of length 0 .. MaxTargetLen (trainer runs)
MaxQubits == 3         \* circuit builds: target distributions of length 2^q, q in 0 .. MaxQubits
MaxLayers == 2         \* layers in 1 .. MaxLayers
Shots == 2             \* the shot budget of every execution
MaxEvals == 2          \* cost evaluations the optimizer makes in one run
MaxSeed == 1           \* parameter vectors are ParameterVector(s, len), s in 0 .. MaxSeed
AngleLevels == 4       \* angles are drawn from 0 .. AngleLevels - 1
MaxEntries == 2        \* entries of the dict handed to a direct prob_dist call

Gates == {"U3", "RYRZ", "RX"}                \* "RX" stands for any unsupported value
Entanglements == {"Linear", "Full", "Ring"}  \* "Ring" stands for any other value

\* The value that stands for Python raising IndexError on a list read.
IndexError == -1

(***************************************************************************)
(* Arithmetic on reals kept as <<numerator, denominator>>.                  *)
(***************************************************************************)
Abs(x) == IF x < 0 THEN -x ELSE x

\* v / shots
Div(v, shots) == <<v, shots>>

\* 1 - q
OneMinus(q) == <<q[2] - q[1], q[2]>>

\* np.abs(p - q)
AbsDiff(p, q) == <<Abs(p[1] * q[2] - q[1] * p[2]), p[2] * q[2]>>

\* p + q
Plus(p, q) == <<p[1] * q[2] + q[1] * p[2], p[2] * q[2]>>

RECURSIVE Pow2(_)
Pow2(k) == IF k <= 0 THEN 1 ELSE 2 * Pow2(k - 1)

\* int(math.log(len, 2)) for len >= 1: the largest k with 2^k <= len
RECURSIVE IntLog2(_)
IntLog2(len) == IF len < 2 THEN 0 ELSE 1 + IntLog2(len \div 2)

(***************************************************************************)
(* src/utils.py                                                            *)
(***************************************************************************)
\* faulty variant: the one-entry rule of lines 3-4 left out
prob_dist_never(cnts, shots) ==
    [i \in 1..Len(cnts) |-> Div(cnts[i][2], shots)]

\* prob_dist(counts, shots)
prob_dist(cnts, shots) ==
    LET distr == [i \in 1..Len(cnts) |-> Div(cnts[i][2], shots)]
    IN  IF Len(distr) = 1
        THEN Append(distr, OneMinus(distr[1]))
        ELSE distr

(***************************************************************************)
(* VQA.Ansatz                                                              *)
(***************************************************************************)
\* self.params[k]
Read(ps, k) == IF k + 1 \in DOMAIN ps THEN ps[k + 1] ELSE IndexError

Gate(kind, qubits, idx, ps) ==
    [kind |-> kind, qubits |-> qubits, idx |-> idx,
     angles |-> [m \in 1..Len(idx) |-> Read(ps, idx[m])]]

\* qc.cx(qr[k], qr[p])
CX(k, p) == Gate("cx", <<k, p>>, <<>>, <<>>)

\* qc.measure(qr, cr): every qubit j is measured into classical bit j
Measure(nq) == Gate("measure", [j \in 1..nq |-> j - 1], <<>>, <<>>)

\* faulty variant: three entries of its own for every qubit
U3Indices_disjoint(i, j) == <<i + 3 * j, i + 3 * j + 1, i + 3 * j + 2>>

\* the indices of qc.u(params[i+j], params[i+j+1], params[i+j+2], qr[j])
U3Indices(i, j) == <<i + j, i + j + 1, i + j + 2>>

\* for j in range(self.n): qc.u(..., qr[j])
U3Rotations(ps, nq, i) ==
    [j \in 1..nq |-> Gate("u", <<j - 1>>, U3Indices(i, j - 1), ps)]

\* for j in range(self.n): qc.ry(params[j+i], qr[j])   (and likewise qc.rz)
Rotations(kind, ps, nq, i) ==
    [j \in 1..nq |-> Gate(kind, <<j - 1>>, <<(j - 1) + i>>, ps)]

\* faulty variant: the chain closed into a ring, cx(n-1, 0) added
LinearCX_wrap(nq) == [k \in 1..nq |-> CX(k - 1, k % nq)]

\* entanglement == "Linear": k = 0 .. n-2, cx(k, k+1)
LinearCX(nq) == [k \in 1..(nq - 1) |-> CX(k - 1, k)]

\* entanglement == "Full": for each k = 0 .. n-2, every p > k, cx(k, p)
RECURSIVE FullFrom(_, _)
FullFrom(k, nq) ==
    IF k >= nq - 1
    THEN <<>>
    ELSE [p \in 1..(nq - 1 - k) |-> CX(k, k + p)] \o FullFrom(k + 1, nq)

FullCX(nq) == FullFrom(0, nq)

\* the if / elif / else on self.entanglement; the else branch only prints
Entangle(nq, ent) ==
    IF ent = "Linear" THEN LinearCX(nq)
    ELSE IF ent = "Full" THEN FullCX(nq)
    ELSE <<>>

\* the loop "for d in range(self.layers)" of the U3 branch, from layer d with cursor i
RECURSIVE U3Layers(_, _, _, _, _, _)
U3Layers(ps, nq, ls, ent, d, i) ==
    IF d >= ls
    THEN <<>>
    ELSE IF d = ls - 1
         THEN U3Rotations(ps, nq, i)
         ELSE U3Rotations(ps, nq, i) \o Entangle(nq, ent)
                \o U3Layers(ps, nq, ls, ent, d + 1, i + nq)

\* the loop "for d in range(self.layers)" of the RYRZ branch
RECURSIVE RYRZLayers(_, _, _, _, _, _)
RYRZLayers(ps, nq, ls, ent, d, i) ==
    LET rot == Rotations("ry", ps, nq, i) \o Rotations("rz", ps, nq, i + nq)
    IN  IF d >= ls
        THEN <<>>
        ELSE IF d = ls - 1
             THEN rot
             ELSE rot \o Entangle(nq, ent)
                    \o RYRZLayers(ps, nq, ls, ent, d + 1, i + 2 * nq)

\* faulty variant: the measurement appended after the branches, whatever the gate
Ansatz_measure_always(ps, nq, ls, g, ent) ==
    LET body == IF g = "U3" THEN U3Layers(ps, nq, ls, ent, 0, 0)
                ELSE IF g = "RYRZ" THEN RYRZLayers(ps, nq, ls, ent, 0, 0)
                ELSE <<>>
    IN  body \o <<Measure(nq)>>

\* self.Ansatz(), as a function of the fields it reads
Ansatz(ps, nq, ls, g, ent) ==
    LET u3 == IF g = "U3"
              THEN U3Layers(ps, nq, ls, ent, 0, 0) \o <<Measure(nq)>>
              ELSE <<>>
    IN  IF g = "RYRZ"
        THEN u3 \o RYRZLayers(ps, nq, ls, ent, 0, 0) \o <<Measure(nq)>>
        ELSE u3

\* a read of self.params past its end makes Ansatz raise
AnsatzRaises(ops) ==
    \E m \in 1..Len(ops) : \E a \in 1..Len(ops[m].angles) :
        ops[m].angles[a] = IndexError

NoCircuit == [built |-> FALSE, ops |-> <<>>]
Circuit(ops) == [built |-> TRUE, ops |-> ops]

(***************************************************************************)
(* VQA.__init__                                                            *)
(***************************************************************************)
\* the vectors np.random.rand and the optimizer are taken to produce
ParameterVector(s, len) == [k \in 1..len |-> (s + k - 1) % AngleLevels]
ParameterVectors(len) == {ParameterVector(s, len) : s \in 0..MaxSeed}

\* faulty variant: one entry allocated per qubit and layer
NumParams_one_per_qubit(nq, ls) == nq * ls

\* len(m) for m = np.random.rand(3*self.n*layers)
NumParams(nq, ls) == 3 * nq * ls

\* the target distributions a trainer is constructed with, by length
Uniform(len) == [i \in 1..len |-> <<1, len>>]
PointMass(len) == [i \in 1..len |-> <<IF i = 1 THEN 1 ELSE 0, 1>>]
Targets(len) == {Uniform(len), PointMass(len)}

(***************************************************************************)
(* Bitstrings, dicts and the backend                                       *)
(***************************************************************************)
\* str(format(j, "b")): the binary digits of j without leading zeros
RECURSIVE Format(_)
Format(j) == IF j < 2 THEN <<j>> ELSE Format(j \div 2) \o <<j % 2>>

\* while len(check) < self.n: check = "0" + check
RECURSIVE ZeroPad(_, _)
ZeroPad(check, width) ==
    IF Len(check) < width THEN ZeroPad(<<0>> \o check, width) ELSE check

\* Python's order on strings: a < b
RECURSIVE StrLess(_, _)
StrLess(a, b) ==
    IF a = <<>> THEN b # <<>>
    ELSE IF b = <<>> THEN FALSE
    ELSE IF a[1] # b[1] THEN a[1] < b[1]
    ELSE StrLess(Tail(a), Tail(b))

\* key in d
HasKey(d, key) == \E i \in 1..Len(d) : d[i][1] = key

\* dict(sorted(d.items())): the items in ascending key order (keys are distinct)
RECURSIVE Insert(_, _)
Insert(item, srt) ==
    IF srt = <<>> THEN <<item>>
    ELSE IF StrLess(item[1], srt[1][1]) THEN <<item>> \o srt
    ELSE <<srt[1]>> \o Insert(item, Tail(srt))

RECURSIVE Sorted(_)
Sorted(d) == IF d = <<>> THEN <<>> ELSE Insert(d[1], Sorted(Tail(d)))

\* dict(sorted(unsorted_output.items()))
SortByKey(d) == Sorted(d)

\* the loop "for j in range(len(self.target_distr))" of objective_function, from j
RECURSIVE FillMissing(_, _, _, _)
FillMissing(d, j, len, width) ==
    IF j >= len
    THEN d
    ELSE LET check == ZeroPad(Format(j), width)
         IN  IF HasKey(d, check)
             THEN FillMissing(d, j + 1, len, width)
             ELSE FillMissing(Append(d, <<check, 0>>), j + 1, len, width)

\* if len(unsorted_output) != len(self.target_distr): ...
Reconcile(d, len, width) ==
    IF Len(d) # len THEN FillMissing(d, 0, len, width) ELSE d

\* sum([np.abs(output_distr[i] - self.target_distr[i]) for i in range(len)]), from i
RECURSIVE SumAbs(_, _, _)
SumAbs(distr, target, i) ==
    IF i > Len(target)
    THEN <<0, 1>>
    ELSE Plus(AbsDiff(distr[i], target[i]), SumAbs(distr, target, i + 1))

\* the width-w bitstring whose integer value is j
BitString(j, w) == [i \in 1..w |-> (j \div Pow2(w - i)) % 2]

\* reversed(d)
Reverse(d) == [i \in 1..Len(d) |-> d[Len(d) + 1 - i]]

\* The histograms of `left` shots over the outcomes j .. 2^w - 1, each as the
\* items of the observed outcomes (count > 0) in ascending order of the outcome.
RECURSIVE Histograms(_, _, _)
Histograms(j, w, left) ==
    IF j = Pow2(w)
    THEN IF left = 0 THEN {<<>>} ELSE {}
    ELSE UNION {
           {IF c = 0 THEN rest ELSE <<<<BitString(j, w), c>>>> \o rest :
              rest \in Histograms(j + 1, w, left - c)} :
           c \in 0..left}

\* What result.get_counts(qc) can be for a circuit that measures w qubits with
\* Shots shots: the observed width-w outcomes with their positive counts, which
\* add up to Shots, listed in ascending or in descending order of the outcome.
BackendCounts(w) ==
    LET asc == Histograms(0, w, Shots)
    IN  asc \cup {Reverse(h) : h \in asc}

(***************************************************************************)
(* The state machine                                                       *)
(***************************************************************************)
Quiet ==
    /\ pd_counts = <<>>
    /\ pd_shots = 1
    /\ pd_result = <<>>

Fresh ==
    /\ target_distr = <<>>
    /\ gate = "U3"
    /\ layers = 0
    /\ entanglement = "Linear"
    /\ n = 0
    /\ has_params = FALSE
    /\ params = <<>>
    /\ initial_params = <<>>
    /\ optCalls = 0
    /\ initial_point = <<>>
    /\ numEvals = 0
    /\ numExec = 0
    /\ arg = <<>>
    /\ qc = NoCircuit
    /\ counts = <<>>
    /\ eval_distr = <<>>
    /\ cost = <<0, 1>>
    /\ sorted_output = <<>>
    /\ output_distr = <<>>
    /\ found_parameters = <<>>

\* before VQA(...) is called
Init ==
    /\ pc = "new"
    /\ Fresh
    /\ Quiet

\* VQA.__init__(target_distribution, optimizer, backend, gate, layers, entanglement, shots)
ConstructWith(lens) ==
    /\ pc = "new"
    /\ \E len \in lens, g \in Gates, ls \in 1..MaxLayers, ent \in Entanglements :
         IF len = 0
         THEN \* math.log(0, 2) raises ValueError: no instance
              /\ pc' = "error"
              /\ UNCHANGED <<target_distr, gate, layers, entanglement, n,
                             has_params, params, initial_params>>
         ELSE \E t \in Targets(len) :
                \E m \in ParameterVectors(NumParams(IntLog2(len), ls)) :
                  /\ target_distr' = t
                  /\ gate' = g
                  /\ layers' = ls
                  /\ entanglement' = ent
                  /\ n' = IntLog2(len)
                  /\ has_params' = (g \in {"U3", "RYRZ"})
                  /\ params' = IF g \in {"U3", "RYRZ"} THEN m ELSE <<>>
                  /\ initial_params' = IF g \in {"U3", "RYRZ"} THEN m ELSE <<>>
                  /\ pc' = "ready"
    /\ UNCHANGED <<optCalls, initial_point, numEvals, numExec, arg, qc, counts,
                   eval_distr, cost, sorted_output, output_distr,
                   found_parameters, pd_counts, pd_shots, pd_result>>

Construct == ConstructWith(0..MaxTargetLen)

\* find_target_distribution up to the call of self.optimizer.optimize (line 189)
StartOptimizer ==
    /\ pc = "ready"
    /\ IF has_params
       THEN /\ optCalls' = optCalls + 1
            /\ initial_point' = params
            /\ pc' = "optimizing"
       ELSE \* len(self.params) raises AttributeError
            /\ pc' = "error"
            /\ UNCHANGED <<optCalls, initial_point>>
    /\ UNCHANGED <<target_distr, gate, layers, entanglement, n, has_params,
                   params, initial_params, numEvals, numExec, arg, qc, counts,
                   eval_distr, cost, sorted_output, output_distr,
                   found_parameters, pd_counts, pd_shots, pd_result>>

\* the circuit objective_function builds when called with p: qc = self.Ansatz()
EvalCircuit(p) == Ansatz(params, n, layers, gate, entanglement)

\* output_distr of objective_function for the dict get_counts returned
EvalDistr(unsorted_output) ==
    prob_dist(SortByKey(Reconcile(unsorted_output, Len(target_distr), n)), Shots)

\* The optimizer calls objective_function(p): lines 148-151, up to the blocking
\* backend.run(qobj).  The locals of the previous call are gone.
objective_function_run ==
    /\ pc = "optimizing"
    /\ numEvals < MaxEvals
    /\ \E p \in ParameterVectors(Len(initial_point)) :
         LET ops == EvalCircuit(p)
         IN  /\ numEvals' = numEvals + 1
             /\ arg' = p
             /\ IF AnsatzRaises(ops)
                THEN /\ pc' = "error"
                     /\ UNCHANGED <<qc, numExec>>
                ELSE /\ qc' = Circuit(ops)
                     /\ numExec' = numExec + 1
                     /\ pc' = "evaluating"
    /\ counts' = <<>>
    /\ eval_distr' = <<>>
    /\ cost' = <<0, 1>>
    /\ UNCHANGED <<target_distr, gate, layers, entanglement, n, has_params,
                   params, initial_params, optCalls, initial_point,
                   sorted_output, output_distr, found_parameters,
                   pd_counts, pd_shots, pd_result>>

\* The backend answers: lines 154-183, from result.get_counts(qc) to return cost.
objective_function_result ==
    /\ pc = "evaluating"
    /\ \E unsorted_output \in BackendCounts(n) :
         LET distr == EvalDistr(unsorted_output)
         IN  /\ counts' = unsorted_output
             /\ eval_distr' = distr
             /\ IF Len(distr) < Len(target_distr)
                THEN \* output_distr[i] raises IndexError
                     /\ pc' = "error"
                     /\ cost' = cost
                ELSE /\ pc' = "optimizing"
                     /\ cost' = SumAbs(distr, target_distr, 1)
    /\ UNCHANGED <<target_distr, gate, layers, entanglement, n, has_params,
                   params, initial_params, optCalls, initial_point, numEvals,
                   numExec, arg, qc, sorted_output, output_distr,
                   found_parameters, pd_counts, pd_shots, pd_result>>

\* faulty variant: ret[0] not stored, self.params kept
StoreBest_keep(best) == params

\* self.params = ret[0]
StoreBest(best) == best

\* optimizer.optimize returns ret (line 189) and line 191 stores ret[0].  The
\* locals of the cost evaluations are gone.
OptimizerReturns ==
    /\ pc = "optimizing"
    /\ \E best \in ParameterVectors(Len(initial_point)) :
         /\ params' = StoreBest(best)
         /\ found_parameters' = best
    /\ pc' = "returned"
    /\ arg' = <<>>
    /\ qc' = NoCircuit
    /\ counts' = <<>>
    /\ eval_distr' = <<>>
    /\ cost' = <<0, 1>>
    /\ UNCHANGED <<target_distr, gate, layers, entanglement, n, has_params,
                   initial_params, optCalls, initial_point, numEvals, numExec,
                   sorted_output, output_distr, pd_counts, pd_shots, pd_result>>

\* the circuit find_target_distribution builds after the optimizer: qc = self.Ansatz()
FinalCircuit == Ansatz(params, n, layers, gate, entanglement)

\* find_target_distribution, lines 194-204, up to the blocking backend.run(qobj)
FinalRun ==
    /\ pc = "returned"
    /\ IF AnsatzRaises(FinalCircuit)
       THEN /\ pc' = "error"
            /\ UNCHANGED <<qc, numExec>>
       ELSE /\ qc' = Circuit(FinalCircuit)
            /\ numExec' = numExec + 1
            /\ pc' = "final"
    /\ UNCHANGED <<target_distr, gate, layers, entanglement, n, has_params,
                   params, initial_params, optCalls, initial_point, numEvals,
                   arg, counts, eval_distr, cost, sorted_output, output_distr,
                   found_parameters, pd_counts, pd_shots, pd_result>>

\* output_distr of find_target_distribution for the dict get_counts returned
DisplayDistr(unsorted_output) == prob_dist(SortByKey(unsorted_output), Shots)

\* The backend answers: lines 204-217.  found_parameters, stored last by the
\* code, holds ret[0] from the return of the optimizer on.
FinalResult ==
    /\ pc = "final"
    /\ \E unsorted_output \in BackendCounts(n) :
         /\ counts' = unsorted_output
         /\ sorted_output' = SortByKey(unsorted_output)
         /\ output_distr' = DisplayDistr(unsorted_output)
    /\ pc' = "done"
    /\ UNCHANGED <<target_distr, gate, layers, entanglement, n, has_params,
                   params, initial_params, optCalls, initial_point, numEvals,
                   numExec, arg, qc, eval_distr, cost, found_parameters,
                   pd_counts, pd_shots, pd_result>>

Next ==
    \/ Construct
    \/ StartOptimizer
    \/ objective_function_run
    \/ objective_function_result
    \/ OptimizerReturns
    \/ FinalRun
    \/ FinalResult

\* a trainer is constructed and find_target_distribution runs on it
Spec == Init /\ [][Next]_vars

(***************************************************************************)
(* Circuit builds: a trainer is constructed for 0 .. MaxQubits qubits and   *)
(* the client calls Ansatz() on it.                                         *)
(***************************************************************************)
ConstructQubits == ConstructWith({0} \cup {Pow2(q) : q \in 0..MaxQubits})

\* qc = vqa.Ansatz(), called by the client
CallAnsatz ==
    /\ pc = "ready"
    /\ LET ops == Ansatz(params, n, layers, gate, entanglement)
       IN  IF AnsatzRaises(ops)
           THEN /\ pc' = "error"
                /\ qc' = qc
           ELSE /\ pc' = "built"
                /\ qc' = Circuit(ops)
    /\ UNCHANGED <<target_distr, gate, layers, entanglement, n, has_params,
                   params, initial_params, optCalls, initial_point, numEvals,
                   numExec, arg, counts, eval_distr, cost, sorted_output,
                   output_distr, found_parameters, pd_counts, pd_shots,
                   pd_result>>

NextAnsatz ==
    \/ ConstructQubits
    \/ CallAnsatz

SpecAnsatz == Init /\ [][NextAnsatz]_vars

(***************************************************************************)
(* Direct calls of prob_dist(counts, shots) on any dict of at most          *)
(* MaxEntries entries, whatever its keys and their order.                   *)
(***************************************************************************)
UtilKeys == UNION {[1..w -> {0, 1}] : w \in 0..2}

\* the dicts of exactly k entries: distinct keys in any order, any counts
RECURSIVE Dicts(_)
Dicts(k) ==
    IF k = 0
    THEN {<<>>}
    ELSE UNION {
           {Append(d, <<key, v>>) :
              key \in {x \in UtilKeys : ~HasKey(d, x)}, v \in 0..Shots} :
           d \in Dicts(k - 1)}

InitUtil ==
    /\ pc = "util"
    /\ Fresh
    /\ pd_counts \in UNION {Dicts(k) : k \in 0..MaxEntries}
    /\ pd_shots \in 1..Shots
    /\ pd_result = <<>>

\* pd_result = prob_dist(pd_counts, pd_shots)
CallProbDist ==
    /\ pc = "util"
    /\ pd_result' = prob_dist(pd_counts, pd_shots)
    /\ pc' = "util_done"
    /\ UNCHANGED <<target_distr, gate, layers, entanglement, n, has_params,
                   params, initial_params, optCalls, initial_point, numEvals,
                   numExec, arg, qc, counts, eval_distr, cost, sorted_output,
                   output_distr, found_parameters, pd_counts, pd_shots>>

NextUtil == CallProbDist

SpecUtil == InitUtil /\ [][NextUtil]_vars

(***************************************************************************)
(* Properties                                                              *)
(***************************************************************************)
\* d[key] for a key that is present
Lookup(d, key) == d[CHOOSE i \in 1..Len(d) : d[i][1] = key][2]

\* d.get(key, 0)
CountOf(d, key) == IF HasKey(d, key) THEN Lookup(d, key) ELSE 0

\* distr is the full probability vector of the dict d over width-w outcomes
IsFullVector(distr, d, w) ==
    /\ Len(distr) = Pow2(w)
    /\ \A i \in 0..(Pow2(w) - 1) :
         distr[i + 1] = <<CountOf(d, BitString(i, w)), Shots>>

IsPowerOfTwo(len) == \E k \in 0..len : len = Pow2(k)

\* a cost evaluation has built and submitted its circuit
Evaluated == pc \in {"evaluating", "optimizing"} /\ numEvals > 0

\* C1: the circuit built in a cost evaluation objective_function(p) is the
\* ansatz for p, the vector passed to that call.
C1_CircuitFromArgument ==
    Evaluated => qc = Circuit(Ansatz(arg, n, layers, gate, entanglement))

\* C2: for a target of length 2^n, the probability vector of a cost evaluation
\* has 2^n entries, and entry i is count(bitstring of value i) / shots, 0 for
\* unobserved outcomes.
C2_EvaluatorVectorFull ==
    (pc = "optimizing" /\ numEvals > 0 /\ Len(target_distr) = Pow2(n))
        => IsFullVector(eval_distr, counts, n)

\* C3: the display probability vector stored after the final execution has
\* 2^n entries, and entry i is the probability of the bitstring of value i.
\* Stated for n >= 1, where a result that misses outcomes is a sparse one.
C3_DisplayVectorFull ==
    (pc = "done" /\ Len(target_distr) = Pow2(n) /\ n >= 1)
        => IsFullVector(output_distr, counts, n)

\* C4: no trainer instance exists for a target distribution whose length is
\* zero or not a power of two.  (layers > 0 exactly when __init__ returned.)
C4_InvalidLengthRejected ==
    layers > 0 => (Len(target_distr) > 0 /\ IsPowerOfTwo(Len(target_distr)))

\* C5, as claimed: with an unsupported gate family the builder returns a
\* circuit without rotation and entangling gates that measures every qubit.
C5_UnsupportedGateMeasures ==
    (pc = "built" /\ gate \notin {"U3", "RYRZ"})
        => /\ \A m \in 1..Len(qc.ops) : qc.ops[m].kind = "measure"
           /\ \E m \in 1..Len(qc.ops) :
                /\ qc.ops[m].kind = "measure"
                /\ qc.ops[m].qubits = [j \in 1..n |-> j - 1]

\* C5, amended: with an unsupported gate family the trainer is constructed
\* (without a parameter vector), and the builder returns, without raising, a
\* circuit that holds no operation at all: no rotation, no entangling gate and
\* no measurement.
C5_UnsupportedGateEmpty ==
    (layers > 0 /\ gate \notin {"U3", "RYRZ"})
        => /\ pc \in {"ready", "built"}
           /\ ~has_params
           /\ pc = "built" => (qc.built /\ qc.ops = <<>>)

\* Ansatz() has returned on a 2-qubit trainer with an unsupported gate family
C5_Witness ==
    pc = "built" /\ gate = "RX" /\ n = 2 /\ qc.built

\* the stages of C6: what holds at each point of find_target_distribution
C6_Order ==
    /\ optCalls <= 1
    /\ pc \in {"optimizing", "evaluating", "returned", "final", "done"}
         => optCalls = 1 /\ initial_point = initial_params
    /\ pc \in {"ready", "optimizing", "evaluating"} => params = initial_params
    /\ pc \in {"optimizing", "returned"} => numExec = numEvals
    /\ pc = "evaluating" => numExec = numEvals
    /\ pc \in {"returned", "final", "done"} => params = found_parameters
    /\ pc \in {"final", "done"}
         => /\ numExec = numEvals + 1
            /\ qc = Circuit(Ansatz(found_parameters, n, layers, gate, entanglement))

\* the steps of C6: when the counters and self.params may change
C6_Step ==
    /\ optCalls' # optCalls => (pc = "ready" /\ optCalls' = optCalls + 1)
    /\ (params' # params /\ pc # "new") => (pc = "optimizing" /\ pc' = "returned")
    /\ numExec' # numExec
         => /\ numExec' = numExec + 1
            /\ \/ pc = "optimizing" /\ pc' = "evaluating" /\ numEvals' = numEvals + 1
               \/ pc = "returned" /\ pc' = "final" /\ numEvals' = numEvals
    /\ numEvals' # numEvals => pc = "optimizing"
    /\ pc \in {"final", "done"} => (numExec' = numExec /\ qc' = qc)

\* C6: in one run the optimizer is called once, with the current parameters
\* as initial point; the parameters are replaced, by the returned vector, only
\* when it returns; then one more circuit is built, from the returned vector,
\* and executed; executions = cost evaluations + 1; nothing is executed after.
\* (C6_Order at every stage, C6_Step at every step.)
C6_RunOrder == [](C6_Order) /\ [][C6_Step]_vars

\* a run is over that made two cost evaluations and returned a new vector
C6_Witness ==
    /\ pc = "done"
    /\ numEvals = 2
    /\ n >= 1
    /\ found_parameters # initial_params

\* the circuit of a trainer with a supported gate family and n >= 1 qubits
BuiltCircuit == pc = "built" /\ gate \in {"U3", "RYRZ"} /\ n >= 1

\* rotation gates per layer, and first position of layer d, e entangling gates per layer
RotationsPerLayer == IF gate = "U3" THEN n ELSE 2 * n
LayerStart(d, e) == d * (RotationsPerLayer + e)

\* C7: after the rotations of each non-final layer, Linear emits cx(k, k+1)
\* for k = 0 .. n-2 in ascending order and nothing else, Full emits every pair
\* (k, p), 0 <= k < p < n, exactly once and nothing else; nothing follows the
\* rotations of the final layer but the measurement; the totals are
\* (layers-1)*(n-1) and (layers-1)*n*(n-1)/2.
C7_Entanglement ==
    (BuiltCircuit /\ entanglement \in {"Linear", "Full"})
        => LET ops == qc.ops
               e == IF entanglement = "Linear" THEN n - 1 ELSE (n * (n - 1)) \div 2
               r == RotationsPerLayer
               pairs == {<<k, p>> \in (0..(n - 1)) \X (0..(n - 1)) : k < p}
           IN  /\ Len(ops) = layers * r + (layers - 1) * e + 1
               /\ ops[Len(ops)].kind = "measure"
               /\ \A d \in 0..(layers - 1) : \A j \in 1..r :
                    ops[LayerStart(d, e) + j].kind \in {"u", "ry", "rz"}
               /\ \A d \in 0..(layers - 2) :
                    /\ \A m \in 1..e : ops[LayerStart(d, e) + r + m].kind = "cx"
                    /\ entanglement = "Linear" =>
                         \A m \in 1..e :
                           ops[LayerStart(d, e) + r + m].qubits = <<m - 1, m>>
                    /\ entanglement = "Full" =>
                         {ops[LayerStart(d, e) + r + m].qubits : m \in 1..e} = pairs
               /\ Cardinality({m \in 1..Len(ops) : ops[m].kind = "cx"})
                    = IF entanglement = "Linear"
                      THEN (layers - 1) * (n - 1)
                      ELSE ((layers - 1) * n * (n - 1)) \div 2

\* a 3-qubit, 2-layer circuit with Full entanglement holds cx(0, 2)
C7_Witness ==
    /\ BuiltCircuit
    /\ entanglement = "Full"
    /\ n = 3
    /\ layers = 2
    /\ \E m \in 1..Len(qc.ops) : qc.ops[m].qubits = <<0, 2>>

\* C8: prob_dist returns count/shots for each entry in the iteration order of
\* the dict, followed by 1 - the single frequency exactly when the dict has
\* one entry: length 2 for one entry, the number of entries otherwise.
C8_ProbDist ==
    pc = "util_done"
        => /\ \A i \in 1..Len(pd_counts) :
                pd_result[i] = <<pd_counts[i][2], pd_shots>>
           /\ Len(pd_counts) = 1
                => /\ Len(pd_result) = 2
                   /\ pd_result[2] = <<pd_shots - pd_counts[1][2], pd_shots>>
           /\ Len(pd_counts) # 1 => Len(pd_result) = Len(pd_counts)

\* prob_dist has returned two entries for the one-entry dict {"11": v}
C8_Witness ==
    /\ pc = "util_done"
    /\ Len(pd_counts) = 1
    /\ pd_counts[1][1] = <<1, 1>>
    /\ Len(pd_result) = 2

\* the U3 rotation on qubit j of layer d, in a circuit with e entangling gates per layer
U3Gate(d, j, e) == qc.ops[LayerStart(d, e) + j + 1]
IdxSet(op) == {op.idx[m] : m \in 1..Len(op.idx)}
LayerIdx(d, e) == UNION {IdxSet(U3Gate(d, j, e)) : j \in 0..(n - 1)}
EntanglersPerLayer ==
    IF entanglement = "Linear" THEN n - 1
    ELSE IF entanglement = "Full" THEN (n * (n - 1)) \div 2
    ELSE 0

\* C9, as claimed: in a U3 layer each rotation takes three consecutive entries
\* that no other gate of the layer takes, 3n distinct entries per layer; for
\* layers >= 2 consecutive layers reuse entries.
C9_DisjointWithinLayer ==
    (BuiltCircuit /\ gate = "U3")
        => LET e == EntanglersPerLayer
           IN  /\ \A d \in 0..(layers - 1) :
                    /\ \A j \in 0..(n - 1) :
                         LET ix == U3Gate(d, j, e).idx
                         IN  Len(ix) = 3 /\ ix[2] = ix[1] + 1 /\ ix[3] = ix[2] + 1
                    /\ \A j, k \in 0..(n - 1) :
                         j # k => IdxSet(U3Gate(d, j, e)) \cap IdxSet(U3Gate(d, k, e)) = {}
                    /\ Cardinality(LayerIdx(d, e)) = 3 * n
               /\ \A d \in 0..(layers - 2) : LayerIdx(d, e) \cap LayerIdx(d + 1, e) # {}

\* C9, amended: in a U3 layer with cursor c = d*n the rotation on qubit j
\* takes the three consecutive entries c+j, c+j+1, c+j+2, so the gates of
\* neighbouring qubits share two entries and a layer consumes the n+2 distinct
\* entries c .. c+n+1 (3n only when n = 1); the cursor advances by n per
\* layer, so for layers >= 2 consecutive layers reuse two entries.
C9_OverlapWithinLayer ==
    (BuiltCircuit /\ gate = "U3")
        => LET e == EntanglersPerLayer
           IN  /\ \A d \in 0..(layers - 1) :
                    /\ \A j \in 0..(n - 1) :
                         U3Gate(d, j, e).idx = <<d * n + j, d * n + j + 1, d * n + j + 2>>
                    /\ \A j \in 0..(n - 2) :
                         Cardinality(IdxSet(U3Gate(d, j, e))
                                       \cap IdxSet(U3Gate(d, j + 1, e))) = 2
                    /\ LayerIdx(d, e) = (d * n)..(d * n + n + 1)
               /\ \A d \in 0..(layers - 2) :
                    LayerIdx(d, e) \cap LayerIdx(d + 1, e) = {(d + 1) * n, (d + 1) * n + 1}

\* the first layer of a 2-qubit, 2-layer U3 circuit read <<0,1,2>> and <<1,2,3>>
C9_Witness ==
    /\ BuiltCircuit
    /\ gate = "U3"
    /\ n = 2
    /\ layers = 2
    /\ qc.ops[1].idx = <<0, 1, 2>>
    /\ qc.ops[2].idx = <<1, 2, 3>>

\* the indices of self.params the built circuit read
ReadIdx == UNION {IdxSet(qc.ops[m]) : m \in 1..Len(qc.ops)}

\* C10: a build never reads self.params outside 0 .. 3*n*layers - 1, the
\* length __init__ allocates: U3 reads at most index n*layers + 1, RYRZ at
\* most index 2*n*layers - 1, and no build raises.
C10_ReadsInRange ==
    /\ (layers > 0 /\ gate \in {"U3", "RYRZ"} /\ n >= 1)
         => /\ pc # "error"
            /\ Len(params) = 3 * n * layers
    /\ BuiltCircuit
         => /\ \A k \in ReadIdx : 0 <= k /\ k <= Len(params) - 1
            /\ gate = "U3" => \A k \in ReadIdx : k <= n * layers + 1
            /\ gate = "RYRZ" => \A k \in ReadIdx : k <= 2 * n * layers - 1
            /\ \A m \in 1..Len(qc.ops) : \A a \in 1..Len(qc.ops[m].angles) :
                 qc.ops[m].angles[a] = params[qc.ops[m].idx[a] + 1]

\* a 3-qubit, 2-layer U3 circuit read index n*layers + 1 = 7
C10_Witness ==
    /\ BuiltCircuit
    /\ gate = "U3"
    /\ n = 3
    /\ layers = 2
    /\ (n * layers + 1) \in ReadIdx
====
